---- MODULE Spec2Model ----
(***************************************************************************)
(* The game loop, clock synchronizer and hit timeline of oshu!             *)
(* (src/src/game/game.c), with the audio collaborator of                   *)
(* src/lib/audio/audio.cc and the renderer's look-up of                    *)
(* src/src/game/osu/draw.c.                                                *)
(*                                                                         *)
(* Times are integers, one unit per second.  The head and tail sentinels   *)
(* of the hit list carry the times NegInf and PosInf.                      *)
(***************************************************************************)
EXTENDS Integers, Sequences, FiniteSets, TLC

(* ------------------------------ bounds --------------------------------- *)

\* Largest wall-clock reading (seconds) sampled in a run.
MaxSystem == 3
\* Largest wall-clock time between two samples.
MaxStep == 2
\* Largest position the audio stream is driven to, by decoding or seeking.
MaxTime == 22
\* Timelines of the look-up specification: number of real hits, latest
\* time, longest duration, clock range and largest look-up offset.
MaxHits == 3
MaxHitTime == 2
MaxDuration == 1
MaxNow == 4
MaxOffset == 2
\* Most events SDL_PollEvent hands out in one frame.
MaxEvents == 2
\* effect tracks of the audio device
MaxTracks == 2
\* length of a sample, and of the stream, in callback buffers
MaxSamples == 2

(* --------------------------- program constants ------------------------- *)

\* game.c:217,229: rewind_music(game, 10.)
RewindOffset == 10
\* game.c:220,232: forward_music(game, 20.)
ForwardOffset == 20
\* game.c:170: rewind_music(game, 1.) on resume
UnpauseOffset == 1
\* game.c:133,151: the 1-second break left around the seek position
SeekBreak == 1
\* beatmap.difficulty.leniency and approach_time, in seconds
Leniency == 1
ApproachTime == 2

NegInf == 0 - 1000
PosInf == 1000
Null == 0

Flags == {"USERPLAY", "AUTOPLAY", "PLAYING", "PAUSED", "FINISHED", "STOPPING"}
HitStates == {"initial", "sliding", "good", "missed", "skipped"}

Max(a, b) == IF a >= b THEN a ELSE b
Min(a, b) == IF a <= b THEN a ELSE b
Range(s) == {s[i] : i \in DOMAIN s}

(* ------------------------------ timeline ------------------------------- *)

\* A hit: its time and its end time (time plus the duration of a slider).
Hit(t, e) == [time |-> t, end_time |-> e]
HeadSentinel == Hit(NegInf, NegInf)
TailSentinel == Hit(PosInf, PosInf)

\* The list head .. real hits .. tail, as the parser hands it over.
Timeline(real) == <<HeadSentinel>> \o real \o <<TailSentinel>>

IsSorted(real) == \A i \in 1..(Len(real) - 1) : real[i].time <= real[i + 1].time

\* hit->next and hit->previous; Null past either end of the list.
NextHit(hits, i) == IF i = Len(hits) THEN Null ELSE i + 1
PreviousHit(hits, i) == IF i = 1 THEN Null ELSE i - 1

oshu_hit_end_time(hits, i) == hits[i].end_time

(* --------------------------- look-up queries --------------------------- *)

\* game.c:449-450  while (oshu_hit_end_time(hit) > target) hit = hit->previous
RECURSIVE LookBackSeekBackward(_, _, _)
LookBackSeekBackward(hits, hit, target) ==
    IF hit = Null THEN Null
    ELSE IF oshu_hit_end_time(hits, hit) > target
         THEN LookBackSeekBackward(hits, PreviousHit(hits, hit), target)
         ELSE hit

\* game.c:452-453  while (oshu_hit_end_time(hit) < target) hit = hit->next
RECURSIVE LookBackSeekForward(_, _, _)
LookBackSeekForward(hits, hit, target) ==
    IF hit = Null THEN Null
    ELSE IF oshu_hit_end_time(hits, hit) < target
         THEN LookBackSeekForward(hits, NextHit(hits, hit), target)
         ELSE hit

\* A look-back that forgets the forward correction.
look_hit_back_no_forward(hits, cursor, now, offset) ==
    LookBackSeekBackward(hits, cursor, now - offset)

oshu_look_hit_back(hits, cursor, now, offset) ==
    LookBackSeekForward(hits, LookBackSeekBackward(hits, cursor, now - offset), now - offset)

\* game.c:463-464  while (hit->time < target) hit = hit->next
RECURSIVE LookUpSeekForward(_, _, _)
LookUpSeekForward(hits, hit, target) ==
    IF hit = Null THEN Null
    ELSE IF hits[hit].time < target
         THEN LookUpSeekForward(hits, NextHit(hits, hit), target)
         ELSE hit

\* game.c:466-467  while (hit->time > target) hit = hit->previous
RECURSIVE LookUpSeekBackward(_, _, _)
LookUpSeekBackward(hits, hit, target) ==
    IF hit = Null THEN Null
    ELSE IF hits[hit].time > target
         THEN LookUpSeekBackward(hits, PreviousHit(hits, hit), target)
         ELSE hit

\* A look-up that forgets the backward correction.
look_hit_up_no_backward(hits, cursor, now, offset) ==
    LookUpSeekForward(hits, cursor, now + offset)

oshu_look_hit_up(hits, cursor, now, offset) ==
    LookUpSeekBackward(hits, LookUpSeekForward(hits, cursor, now + offset), now + offset)

(* -------------------------------- drawing ------------------------------ *)

\* draw.c:240-250: the loop of osu_draw from hit back to the head of the
\* list; the sentinels are neither circles nor sliders
RECURSIVE DrawLoop(_, _, _, _)
DrawLoop(hits, hit, now, done) ==
    IF hit = Null THEN done
    ELSE IF hit = 1 \/ hit = Len(hits)
         THEN DrawLoop(hits, PreviousHit(hits, hit), now, done)
    ELSE IF oshu_hit_end_time(hits, hit) < now - ApproachTime THEN done
    ELSE DrawLoop(hits, PreviousHit(hits, hit), now, done \cup {hit})

\* draw.c:236-254: the hits osu_draw draws
osu_draw(hits, cursor, now) ==
    DrawLoop(hits, oshu_look_hit_up(hits, cursor, now, ApproachTime), now, {})

(* ----------------------- rewind and forward walks ---------------------- *)

\* A rewind walk that steps back once before it looks at the time.
RECURSIVE RewindWalkStepFirst(_, _, _, _)
RewindWalkStepFirst(hits, cursor, hstate, now) ==
    IF cursor = Null THEN [cursor |-> Null, hstate |-> hstate]
    ELSE LET p == PreviousHit(hits, cursor)
             h == [hstate EXCEPT ![cursor] = "initial"]
         IN  IF p # Null /\ hits[p].time > now + SeekBreak
             THEN RewindWalkStepFirst(hits, p, h, now)
             ELSE [cursor |-> p, hstate |-> h]

\* A rewind walk that leaves the states of the hits it passes.
RECURSIVE RewindWalkKeepingStates(_, _, _, _)
RewindWalkKeepingStates(hits, cursor, hstate, now) ==
    IF cursor = Null THEN [cursor |-> Null, hstate |-> hstate]
    ELSE IF hits[cursor].time > now + SeekBreak
         THEN RewindWalkKeepingStates(hits, PreviousHit(hits, cursor), hstate, now)
         ELSE [cursor |-> cursor, hstate |-> hstate]

\* game.c:133-136: reset and step back while the cursor is after now + 1.
RECURSIVE RewindWalk(_, _, _, _)
RewindWalk(hits, cursor, hstate, now) ==
    IF cursor = Null THEN [cursor |-> Null, hstate |-> hstate]
    ELSE IF hits[cursor].time > now + SeekBreak
         THEN RewindWalk(hits, PreviousHit(hits, cursor),
                         [hstate EXCEPT ![cursor] = "initial"], now)
         ELSE [cursor |-> cursor, hstate |-> hstate]

\* A forward walk that also passes the hit at now + 1.
RECURSIVE ForwardWalkInclusive(_, _, _, _)
ForwardWalkInclusive(hits, cursor, hstate, now) ==
    IF cursor = Null THEN [cursor |-> Null, hstate |-> hstate]
    ELSE IF hits[cursor].time <= now + SeekBreak
         THEN ForwardWalkInclusive(hits, NextHit(hits, cursor),
                                   [hstate EXCEPT ![cursor] = "skipped"], now)
         ELSE [cursor |-> cursor, hstate |-> hstate]

\* game.c:151-154: skip and step forward while the cursor is before now + 1.
RECURSIVE ForwardWalk(_, _, _, _)
ForwardWalk(hits, cursor, hstate, now) ==
    IF cursor = Null THEN [cursor |-> Null, hstate |-> hstate]
    ELSE IF hits[cursor].time < now + SeekBreak
         THEN ForwardWalk(hits, NextHit(hits, cursor),
                          [hstate EXCEPT ![cursor] = "skipped"], now)
         ELSE [cursor |-> cursor, hstate |-> hstate]

(* ------------------------------- state --------------------------------- *)

VARIABLES
    state,          \* game->state: the set of OSHU_* flags that are set
    clock,          \* game->clock: now, before, system, audio
    music_ts,       \* game->audio.music.current_timestamp
    device_playing, \* the audio device is unpaused (SDL_PauseAudioDevice 0)
    seek_request,   \* target the last step passed to oshu_seek_music, NoSeek if none
    beatmap,        \* game->beatmap: hits (with sentinels) and audio_lead_in
    hit_cursor,     \* game->hit_cursor, an index into beatmap.hits
    hit_state,      \* hit->state of every node of the list
    pc,             \* position of oshu_run_game
    look_result,    \* hit returned by the last look-up of this frame
    calls,          \* functions executed by the last step, in call order
    locals,         \* diff and prev_audio of the last sample, offset of the last look-up,
                    \* rc: status the mode returned to the last step
    polled,         \* events handled so far in this frame
    interrupted,    \* a pause or a seek happened since the loop was entered
    drawn,          \* the hits the last step drew
    resumed,        \* "resumed" once the game has left the pause, "sampled" right
                    \* after the first clock sample that follows, else "no"
    audio_device    \* the audio device: its lock, the effect tracks, the looping
                    \* track, the audio function the main thread is in, the callback

vars == <<state, clock, music_ts, device_playing, seek_request, beatmap,
          hit_cursor, hit_state, pc, look_result, calls, locals, interrupted,
          polled, audio_device, resumed, drawn>>

NoSeek == NegInf

\* Wall-clock reading when the loop is entered: ticks are counted from there.
StartTicks == 0
NoLocals == [diff |-> 0, prev_audio |-> 0, offset |-> 0, rc |-> 0, failing |-> {}]

\* mode.h:36-70: the operations of a mode and the statuses they return,
\* 0 or a negative number for a fatal error.
ModeOperations == {"check", "autoplay", "press", "release", "relinquish"}
ModeStatuses == {0, 0 - 1}

\* The locals of a step that ran g.calls: the mode, if it was called, has
\* returned any of its statuses.
ModeReturned(g) ==
    {[NoLocals EXCEPT !.rc = rc] :
        rc \in {r \in ModeStatuses : r = 0 \/ Range(g.calls) \cap ModeOperations # {}}}

hits == beatmap.hits

\* The game as the handlers see it; calls starts empty for each step, and
\* the sample that followed a resume is in the past.
Game ==
    [state |-> state, clock |-> clock, music_ts |-> music_ts,
     device_playing |-> device_playing, seek_request |-> NoSeek,
     hit_cursor |-> hit_cursor, hit_state |-> hit_state,
     calls |-> <<>>, interrupted |-> interrupted,
     resumed |-> IF resumed = "resumed" THEN resumed ELSE "no"]

Called(g, fn) == [g EXCEPT !.calls = Append(@, fn)]

(* ----------------------------- game mode ------------------------------- *)

IsSentinel(i) == i = 1 \/ i = Len(hits)
IsSlider(i) == hits[i].end_time > hits[i].time
Resolved(s) == s \in {"good", "missed", "skipped"}

\* How a held slider is judged when it is let go at `now`.
ReleaseState(i, now) ==
    IF now >= hits[i].end_time - Leniency THEN "good" ELSE "missed"

\* check(): miss what expired, step over what is resolved.
RECURSIVE CheckWalk(_, _, _)
CheckWalk(cursor, hstate, now) ==
    IF NextHit(hits, cursor) = Null THEN [cursor |-> cursor, hstate |-> hstate]
    ELSE IF cursor = 1 \/ Resolved(hstate[cursor])
         THEN CheckWalk(cursor + 1, hstate, now)
    ELSE IF hits[cursor].end_time + Leniency < now
         THEN CheckWalk(cursor + 1, [hstate EXCEPT ![cursor] = "missed"], now)
    ELSE [cursor |-> cursor, hstate |-> hstate]

mode_check(g) ==
    LET w == CheckWalk(g.hit_cursor, g.hit_state, g.clock.now)
    IN  [Called(g, "check") EXCEPT !.hit_cursor = w.cursor, !.hit_state = w.hstate]

\* autoplay(): every hit is good once now reaches it, sliders are held.
RECURSIVE AutoplayWalk(_, _, _)
AutoplayWalk(cursor, hstate, now) ==
    IF NextHit(hits, cursor) = Null THEN [cursor |-> cursor, hstate |-> hstate]
    ELSE IF cursor = 1 \/ Resolved(hstate[cursor])
         THEN AutoplayWalk(cursor + 1, hstate, now)
    ELSE IF now >= hits[cursor].end_time
         THEN AutoplayWalk(cursor + 1, [hstate EXCEPT ![cursor] = "good"], now)
    ELSE IF now >= hits[cursor].time
         THEN [cursor |-> cursor, hstate |-> [hstate EXCEPT ![cursor] = "sliding"]]
    ELSE [cursor |-> cursor, hstate |-> hstate]

mode_autoplay(g) ==
    LET w == AutoplayWalk(g.hit_cursor, g.hit_state, g.clock.now)
    IN  [Called(g, "autoplay") EXCEPT !.hit_cursor = w.cursor, !.hit_state = w.hstate]

\* press(): resolve the hit under the cursor when it is within tolerance.
mode_press(g) ==
    LET c == g.hit_cursor
        now == g.clock.now
        hit_it == /\ ~IsSentinel(c)
                  /\ g.hit_state[c] = "initial"
                  /\ hits[c].time - Leniency <= now
                  /\ now <= hits[c].time + Leniency
    IN  IF hit_it
        THEN [Called(g, "press") EXCEPT
                 !.hit_state[c] = IF IsSlider(c) THEN "sliding" ELSE "good"]
        ELSE Called(g, "press")

\* Let go of whatever is held.
LetGo(hstate, now) ==
    [i \in DOMAIN hstate |->
        IF hstate[i] = "sliding" THEN ReleaseState(i, now) ELSE hstate[i]]

mode_release(g) ==
    [Called(g, "release") EXCEPT !.hit_state = LetGo(@, g.clock.now)]

mode_relinquish(g) ==
    [Called(g, "relinquish") EXCEPT !.hit_state = LetGo(@, g.clock.now)]

(* --------------------------- audio collaborator ------------------------ *)

\* The stream seeks to the target, or to its start for a negative target.
seek_stream(target) == Max(target, 0)

\* audio.cc:185-195
oshu_seek_music(g, target) ==
    [Called(g, "seek_music") EXCEPT
        !.music_ts = seek_stream(target),
        !.seek_request = target,
        !.interrupted = TRUE]

\* audio.cc:117-120
oshu_play_audio(g) == [Called(g, "play_audio") EXCEPT !.device_playing = TRUE]

\* audio.cc:122-125
oshu_pause_audio(g) == [Called(g, "pause_audio") EXCEPT !.device_playing = FALSE]

(* ----------------------------- game handlers --------------------------- *)

\* A pause that leaves OSHU_PLAYING set.
pause_game_still_playing(g) ==
    LET g1 == oshu_pause_audio(Called(g, "pause_game"))
    IN  [g1 EXCEPT !.state = @ \cup {"PAUSED"},
                   !.interrupted = TRUE]

\* game.c:111-117
pause_game(g) ==
    LET g1 == oshu_pause_audio(Called(g, "pause_game"))
    IN  [g1 EXCEPT !.state = (@ \cup {"PAUSED"}) \ {"PLAYING"},
                   !.interrupted = TRUE]

\* A rewind that takes the requested target for the new position.
rewind_music_to_target(g, offset) ==
    LET g1 == oshu_seek_music(Called(g, "rewind_music"), g.music_ts - offset)
        g2 == [Called(g1, "clock.now") EXCEPT !.clock.now = g.music_ts - offset]
        g3 == mode_relinquish(g2)
        w  == RewindWalk(hits, g3.hit_cursor, g3.hit_state, g3.clock.now)
    IN  [Called(g3, "hit_cursor") EXCEPT !.hit_cursor = w.cursor, !.hit_state = w.hstate]

\* A rewind that lets go of the held hit only after the cursor walk.
rewind_music_relinquish_last(g, offset) ==
    LET g1 == oshu_seek_music(Called(g, "rewind_music"), g.music_ts - offset)
        g2 == [Called(g1, "clock.now") EXCEPT !.clock.now = g1.music_ts]
        w  == RewindWalk(hits, g2.hit_cursor, g2.hit_state, g2.clock.now)
        g3 == [Called(g2, "hit_cursor") EXCEPT !.hit_cursor = w.cursor, !.hit_state = w.hstate]
    IN  mode_relinquish(g3)

\* game.c:125-137; the assignment of clock.now and the cursor walk are logged
\* among the calls, under the name of what they write.
rewind_music(g, offset) ==
    LET g1 == oshu_seek_music(Called(g, "rewind_music"), g.music_ts - offset)
        g2 == [Called(g1, "clock.now") EXCEPT !.clock.now = g1.music_ts]
        g3 == mode_relinquish(g2)
        w  == RewindWalk(hits, g3.hit_cursor, g3.hit_state, g3.clock.now)
    IN  [Called(g3, "hit_cursor") EXCEPT !.hit_cursor = w.cursor, !.hit_state = w.hstate]

\* game.c:139-155
forward_music(g, offset) ==
    LET g1 == oshu_seek_music(Called(g, "forward_music"), g.music_ts + offset)
        g2 == [Called(g1, "clock.now") EXCEPT !.clock.now = g1.music_ts]
        g3 == mode_relinquish(g2)
        g4 == IF "PAUSED" \notin g3.state THEN oshu_play_audio(g3) ELSE g3
        w  == ForwardWalk(hits, g4.hit_cursor, g4.hit_state, g4.clock.now)
    IN  [Called(g4, "hit_cursor") EXCEPT !.hit_cursor = w.cursor, !.hit_state = w.hstate]

\* A resume that rewinds and starts the audio whatever the policy and the
\* clock.
unpause_game_always_rewinding(g) ==
    LET g0 == [Called(g, "unpause_game") EXCEPT
                    !.resumed = IF "PAUSED" \in g.state THEN "resumed" ELSE @]
        g1 == oshu_play_audio(rewind_music(g0, UnpauseOffset))
    IN  [g1 EXCEPT !.state = (@ \ {"PAUSED"}) \cup {"PLAYING"}]

\* game.c:166-175
unpause_game(g) ==
    LET g0 == [Called(g, "unpause_game") EXCEPT
                    !.resumed = IF "PAUSED" \in g.state THEN "resumed" ELSE @]
        g1 == IF g0.clock.now >= 0
              THEN oshu_play_audio(IF "AUTOPLAY" \notin g0.state
                                   THEN rewind_music(g0, UnpauseOffset)
                                   ELSE g0)
              ELSE g0
    IN  [g1 EXCEPT !.state = (@ \ {"PAUSED"}) \cup {"PLAYING"}]

\* game.c:177-197: the keys of the model that are game keys.
translate_key(sym) == IF sym = "z" THEN "LEFT_MIDDLE" ELSE "UNKNOWN_KEY"

KeySyms == {"q", "ESCAPE", "PAGEUP", "PAGEDOWN", "z", "F1"}
WindowEvents == {"MINIMIZED", "FOCUS_LOST", "CLOSE"}

Event(type, sym, repeat, window) ==
    [type |-> type, sym |-> sym, repeat |-> repeat, window |-> window]

\* What SDL_PollEvent can return.
Events ==
    {Event("KEYDOWN", k, r, "NONE") : k \in KeySyms, r \in BOOLEAN}
    \cup {Event("KEYUP", k, FALSE, "NONE") : k \in KeySyms}
    \cup {Event(t, "NONE", FALSE, "NONE") : t \in {"MOUSEBUTTONDOWN", "MOUSEBUTTONUP"}}
    \cup {Event("WINDOWEVENT", "NONE", FALSE, w) : w \in WindowEvents}

UserPlaying(g) == "USERPLAY" \in g.state /\ "PLAYING" \in g.state

\* A key handler that takes key repeats like first presses.
handle_keydown_with_repeats(g, e) ==
    IF g.state \cap {"AUTOPLAY", "PAUSED"} # {}
    THEN CASE e.sym = "q" -> [g EXCEPT !.state = @ \cup {"STOPPING"}]
           [] e.sym = "ESCAPE" -> unpause_game(g)
           [] e.sym = "PAGEUP" -> rewind_music(g, RewindOffset)
           [] e.sym = "PAGEDOWN" -> forward_music(g, ForwardOffset)
           [] OTHER -> g
    ELSE IF UserPlaying(g)
    THEN CASE e.sym = "ESCAPE" -> pause_game(g)
           [] e.sym = "PAGEUP" -> rewind_music(g, RewindOffset)
           [] e.sym = "PAGEDOWN" -> forward_music(g, ForwardOffset)
           [] OTHER -> IF translate_key(e.sym) # "UNKNOWN_KEY" THEN mode_press(g) ELSE g
    ELSE IF e.sym = "q" THEN [g EXCEPT !.state = @ \cup {"STOPPING"}] ELSE g

\* game.c:205-249
handle_keydown(g, e) ==
    IF e.repeat THEN g
    ELSE IF g.state \cap {"AUTOPLAY", "PAUSED"} # {}
    THEN CASE e.sym = "q" -> [g EXCEPT !.state = @ \cup {"STOPPING"}]
           [] e.sym = "ESCAPE" -> unpause_game(g)
           [] e.sym = "PAGEUP" -> rewind_music(g, RewindOffset)
           [] e.sym = "PAGEDOWN" -> forward_music(g, ForwardOffset)
           [] OTHER -> g
    ELSE IF UserPlaying(g)
    THEN CASE e.sym = "ESCAPE" -> pause_game(g)
           [] e.sym = "PAGEUP" -> rewind_music(g, RewindOffset)
           [] e.sym = "PAGEDOWN" -> forward_music(g, ForwardOffset)
           [] OTHER -> IF translate_key(e.sym) # "UNKNOWN_KEY" THEN mode_press(g) ELSE g
    ELSE IF e.sym = "q" THEN [g EXCEPT !.state = @ \cup {"STOPPING"}] ELSE g

\* An event handler that pauses on a lost focus even when the cursor is on
\* the tail of the list.
handle_event_pausing_at_the_tail(g, e) ==
    CASE e.type = "KEYDOWN" -> handle_keydown(g, e)
      [] e.type = "KEYUP" ->
            IF UserPlaying(g) /\ translate_key(e.sym) # "UNKNOWN_KEY"
            THEN mode_release(g) ELSE g
      [] e.type = "MOUSEBUTTONDOWN" -> IF UserPlaying(g) THEN mode_press(g) ELSE g
      [] e.type = "MOUSEBUTTONUP" -> IF UserPlaying(g) THEN mode_release(g) ELSE g
      [] e.type = "WINDOWEVENT" ->
            IF e.window \in {"MINIMIZED", "FOCUS_LOST"}
            THEN IF UserPlaying(g) THEN pause_game(g) ELSE g
            ELSE [g EXCEPT !.state = @ \cup {"STOPPING"}]

\* game.c:202-278
handle_event(g, e) ==
    CASE e.type = "KEYDOWN" -> handle_keydown(g, e)
      [] e.type = "KEYUP" ->
            IF UserPlaying(g) /\ translate_key(e.sym) # "UNKNOWN_KEY"
            THEN mode_release(g) ELSE g
      [] e.type = "MOUSEBUTTONDOWN" -> IF UserPlaying(g) THEN mode_press(g) ELSE g
      [] e.type = "MOUSEBUTTONUP" -> IF UserPlaying(g) THEN mode_release(g) ELSE g
      [] e.type = "WINDOWEVENT" ->
            IF e.window \in {"MINIMIZED", "FOCUS_LOST"}
            THEN IF UserPlaying(g) /\ NextHit(hits, g.hit_cursor) # Null
                 THEN pause_game(g) ELSE g
            ELSE [g EXCEPT !.state = @ \cup {"STOPPING"}]

\* An end check that does not remember the game is over.
check_end_every_frame(g) ==
    IF NextHit(hits, g.hit_cursor) # Null THEN g
    ELSE IF g.clock.now > oshu_hit_end_time(hits, PreviousHit(hits, g.hit_cursor)) + Leniency
         THEN [Called(g, "end") EXCEPT !.state = {"FINISHED", "PLAYING"}]
         ELSE g

\* game.c:383-393
check_end(g) ==
    IF "FINISHED" \in g.state THEN g
    ELSE IF NextHit(hits, g.hit_cursor) # Null THEN g
    ELSE IF g.clock.now > oshu_hit_end_time(hits, PreviousHit(hits, g.hit_cursor)) + Leniency
         THEN [Called(g, "end") EXCEPT !.state = {"FINISHED", "PLAYING"}]
         ELSE g

\* A clock that trusts the audio position without the final clamp.
update_clock_unclamped(g, system) ==
    LET diff == system - g.clock.system
        prev_audio == g.clock.audio
        audio == g.music_ts
        before == g.clock.now
        now == IF "PLAYING" \notin g.state THEN before
               ELSE IF before < 0 THEN before + diff
               ELSE IF audio = prev_audio THEN before + diff
               ELSE audio
    IN  [Called(g, "update_clock") EXCEPT
            !.clock = [now |-> now, before |-> before, system |-> system, audio |-> audio]]

\* A clock that stands still while the audio position repeats.
update_clock_frozen_on_stall(g, system) ==
    LET diff == system - g.clock.system
        prev_audio == g.clock.audio
        audio == g.music_ts
        before == g.clock.now
        now == IF "PLAYING" \notin g.state THEN before
               ELSE IF before < 0 THEN before + diff
               ELSE IF audio = prev_audio THEN before
               ELSE audio
    IN  [Called(g, "update_clock") EXCEPT
            !.clock = [now |-> IF now < before THEN before ELSE now,
                       before |-> before, system |-> system, audio |-> audio]]

\* A clock that follows the audio position during the lead-in.
update_clock_audio_in_lead_in(g, system) ==
    LET diff == system - g.clock.system
        prev_audio == g.clock.audio
        audio == g.music_ts
        before == g.clock.now
        now == IF "PLAYING" \notin g.state THEN before
               ELSE IF before < 0 THEN audio
               ELSE IF audio = prev_audio THEN before + diff
               ELSE audio
    IN  [Called(g, "update_clock") EXCEPT
            !.clock = [now |-> IF now < before THEN before ELSE now,
                       before |-> before, system |-> system, audio |-> audio]]

\* A clock that keeps running while the game is paused.
update_clock_ignoring_pause(g, system) ==
    LET diff == system - g.clock.system
        prev_audio == g.clock.audio
        audio == g.music_ts
        before == g.clock.now
        now == IF before < 0 THEN before + diff
               ELSE IF audio = prev_audio THEN before + diff
               ELSE audio
    IN  [Called(g, "update_clock") EXCEPT
            !.clock = [now |-> IF now < before THEN before ELSE now,
                       before |-> before, system |-> system, audio |-> audio]]

\* A clock that measures the elapsed time from the start of the loop instead
\* of from the previous sample.
update_clock_counting_from_start(g, system) ==
    LET diff == system - StartTicks
        prev_audio == g.clock.audio
        audio == g.music_ts
        before == g.clock.now
        now == IF "PLAYING" \notin g.state THEN before
               ELSE IF before < 0 THEN before + diff
               ELSE IF audio = prev_audio THEN before + diff
               ELSE audio
    IN  [Called(g, "update_clock") EXCEPT
            !.clock = [now |-> IF now < before THEN before ELSE now,
                       before |-> before, system |-> system, audio |-> audio]]

\* game.c:332-352
update_clock(g, system) ==
    LET diff == system - g.clock.system
        prev_audio == g.clock.audio
        audio == g.music_ts
        before == g.clock.now
        now == IF "PLAYING" \notin g.state THEN before
               ELSE IF before < 0 THEN before + diff
               ELSE IF audio = prev_audio THEN before + diff
               ELSE audio
    IN  [Called(g, "update_clock") EXCEPT
            !.clock = [now |-> IF now < before THEN before ELSE now,
                       before |-> before, system |-> system, audio |-> audio]]

(* ------------------------------ beatmaps ------------------------------- *)

Beatmap(real, lead_in) == [hits |-> Timeline(real), audio_lead_in |-> lead_in]

\* Beatmaps of the game-loop specification: a slider that outlasts the
\* circle after it, with a lead-in and without one; the first has a circle
\* where a forward seek from the start of the song lands, the second ends
\* shortly before that.
MainBeatmaps ==
    { Beatmap(<<Hit(2, 2), Hit(11, 14), Hit(12, 12), Hit(21, 21)>>, 2),
      Beatmap(<<Hit(1, 3), Hit(2, 2), Hit(18, 18)>>, 0) }

\* game.c:64-70: the clock starts before the song when there is a lead-in,
\* or one second before a first hit that comes within the first second.
InitialNow(b) ==
    IF b.audio_lead_in > 0 THEN 0 - b.audio_lead_in
    ELSE IF b.hits[2].time < 1 THEN b.hits[2].time - 1
    ELSE 0

\* main.cc:82-96: --autoplay picks the policy, --pause starts paused.
InitialStates ==
    {{policy, activity} : policy \in {"USERPLAY", "AUTOPLAY"},
                          activity \in {"PLAYING", "PAUSED"}}

\* game.c:25-81: the stages of oshu_create_game that can fail, in order
Stages ==
    <<"oshu_load_beatmap", "beatmap.mode", "oshu_open_audio", "oshu_open_display",
      "initialize">>

\* A creation that returns -1 from a failed stage without cleaning up.
oshu_create_game_without_cleanup(g, b, failing) ==
    LET g1 == Called(Called(g, "oshu_create_game"), "oshu_load_beatmap")
        g2 == Called([g1 EXCEPT !.hit_cursor = 1], "oshu_open_audio")
        g3 == Called(g2, "oshu_open_display")
        g4 == Called([g3 EXCEPT !.clock.now = InitialNow(b)], "initialize")
    IN  IF "oshu_load_beatmap" \in failing THEN [game |-> g1, rc |-> 0 - 1]
        ELSE IF "beatmap.mode" \in failing THEN [game |-> g1, rc |-> 0 - 1]
        ELSE IF "oshu_open_audio" \in failing THEN [game |-> g2, rc |-> 0 - 1]
        ELSE IF "oshu_open_display" \in failing THEN [game |-> g3, rc |-> 0 - 1]
        ELSE IF "initialize" \in failing THEN [game |-> g4, rc |-> 0 - 1]
        ELSE [game |-> g4, rc |-> 0]

\* game.c:25-81: failing is the set of stages that fail when they are
\* attempted; the result is the game and the value returned
oshu_create_game(g, b, failing) ==
    LET fail(h) == [game |-> Called(h, "oshu_destroy_game"), rc |-> 0 - 1]
        g1 == Called(Called(g, "oshu_create_game"), "oshu_load_beatmap")
        g2 == Called([g1 EXCEPT !.hit_cursor = 1], "oshu_open_audio")
        g3 == Called(g2, "oshu_open_display")
        g4 == Called([g3 EXCEPT !.clock.now = InitialNow(b)], "initialize")
    IN  IF "oshu_load_beatmap" \in failing THEN fail(g1)
        ELSE IF "beatmap.mode" \in failing THEN fail(g1)
        ELSE IF "oshu_open_audio" \in failing THEN fail(g2)
        ELSE IF "oshu_open_display" \in failing THEN fail(g3)
        ELSE IF "initialize" \in failing THEN fail(g4)
        ELSE [game |-> g4, rc |-> 0]

\* The caller runs the game only when the creation succeeded.
AfterCreate(rc) == IF rc < 0 THEN "exited" ELSE "run"

(* ------------------------------- actions ------------------------------- *)

\* Install the game a handler returns.
Commit(g) ==
    /\ state' = g.state
    /\ clock' = g.clock
    /\ music_ts' = g.music_ts
    /\ device_playing' = g.device_playing
    /\ seek_request' = g.seek_request
    /\ hit_cursor' = g.hit_cursor
    /\ hit_state' = g.hit_state
    /\ calls' = g.calls
    /\ interrupted' = g.interrupted
    /\ audio_device' = audio_device
    /\ resumed' = g.resumed
    /\ drawn' = {}

(* ------------------------------ audio device --------------------------- *)

\* An effect track: the sample it plays (Null when inactive) and its cursor;
\* before_seek marks a track that was active when the stream was seeked.
NoTrack == [sample |-> Null, cursor |-> 0, before_seek |-> FALSE]

\* The sample every sound effect plays.
Sample == 1

\* track.cc: start playing a sample from its beginning
start_track(track, sample) == [NoTrack EXCEPT !.sample = sample]

\* track.cc: make the track inactive
stop_track(track) == NoTrack

\* track.cc: mix one buffer of the track; a finished sample ends the track,
\* unless it loops
mix_track(track, loop) ==
    IF track.sample = Null THEN track
    ELSE IF track.cursor + 1 < MaxSamples
         THEN [track EXCEPT !.cursor = track.cursor + 1]
         ELSE IF loop THEN [track EXCEPT !.cursor = 0] ELSE NoTrack

\* A selection that always takes the first track with the biggest cursor,
\* whether or not a track is inactive.
select_track_stealing(a) ==
    LET biggest == {i \in 1..MaxTracks :
                        \A j \in 1..MaxTracks : a.effects[j].cursor <= a.effects[i].cursor}
    IN  CHOOSE i \in biggest : \A j \in biggest : i <= j

\* audio.cc:148-157: the loop of select_track from track i on
RECURSIVE select_track_loop(_, _, _, _)
select_track_loop(a, i, max_cursor, best_track) ==
    IF i > MaxTracks THEN best_track
    ELSE IF a.effects[i].sample = Null THEN i
    ELSE IF a.effects[i].cursor > max_cursor
         THEN select_track_loop(a, i + 1, a.effects[i].cursor, i)
         ELSE select_track_loop(a, i + 1, max_cursor, best_track)

\* audio.cc:144-159: an inactive track if the loop meets one, or else the
\* first track with the biggest cursor
select_track(a) == select_track_loop(a, 1, 0, 1)

\* The statements of play_sample, stop_loop and seek_music, with seek_music
\* closing the critical section before it stops the tracks.
BodyUnlockingEarly(fn) ==
    CASE fn = "play_sample" -> <<"lock", "select_track", "start_track", "unlock">>
      [] fn = "play_loop"   -> <<"lock", "start_loop", "unlock">>
      [] fn = "stop_loop"   -> <<"lock", "stop_loop", "unlock">>
      [] fn = "seek_music"  -> <<"lock", "seek_stream", "unlock", "stop_loop",
                                 "stop_effects">>

\* audio.cc:161-195: the statements of the functions the main thread calls,
\* in order; "stop_effects" is the loop over the effect tracks
Body(fn) ==
    CASE fn = "play_sample" -> <<"lock", "select_track", "start_track", "unlock">>
      [] fn = "play_loop"   -> <<"lock", "start_loop", "unlock">>
      [] fn = "stop_loop"   -> <<"lock", "stop_loop", "unlock">>
      [] fn = "seek_music"  -> <<"lock", "seek_stream", "stop_loop", "stop_effects",
                                 "unlock">>

AudioFunctions == {"play_sample", "play_loop", "stop_loop", "seek_music"}

\* The positions seek_music is asked for.
SeekTargets == (0 - 1)..MaxSamples

\* The device with nothing playing, the main thread outside the audio
\* functions and the callback not running.
IdleAudio ==
    [lock     |-> "free",
     effects  |-> [i \in 1..MaxTracks |-> NoTrack],
     looping  |-> NoTrack,
     fn       |-> "none",
     line     |-> 1,
     target   |-> 0,
     track    |-> 1,
     i        |-> 1,
     callback |-> "idle"]

\* A track that was playing when the stream moved.
Outlived(track) ==
    IF track.sample = Null THEN track ELSE [track EXCEPT !.before_seek = TRUE]

\* audio.cc:161-195: one statement of the function the main thread is in,
\* applied to the device a and the stream position ts
Statement(a, ts, stmt) ==
    CASE stmt = "lock" ->
            [device |-> [a EXCEPT !.lock = "main"], music_ts |-> ts]
      [] stmt = "unlock" ->
            [device |-> [a EXCEPT !.lock = "free"], music_ts |-> ts]
      [] stmt = "select_track" ->
            [device |-> [a EXCEPT !.track = select_track(a)], music_ts |-> ts]
      [] stmt = "start_track" ->
            [device |-> [a EXCEPT !.effects[a.track] = start_track(@, Sample)],
             music_ts |-> ts]
      [] stmt = "start_loop" ->
            [device |-> [a EXCEPT !.looping = start_track(@, Sample)], music_ts |-> ts]
      [] stmt = "stop_loop" ->
            [device |-> [a EXCEPT !.looping = stop_track(@)], music_ts |-> ts]
      [] stmt = "seek_stream" ->
            [device |-> [a EXCEPT !.effects = [i \in 1..MaxTracks |-> Outlived(a.effects[i])],
                                 !.looping = Outlived(a.looping),
                                 !.i = 1],
             music_ts |-> seek_stream(a.target)]
      [] stmt = "stop_effects" ->
            [device |-> [a EXCEPT !.effects[a.i] = stop_track(@), !.i = a.i + 1],
             music_ts |-> ts]

\* The statement the main thread executes next.
NextStatement == Body(audio_device.fn)[audio_device.line]

\* The line after the current statement; the loop over the effect tracks
\* stays on its line until the last track.
NextLine(a) ==
    IF Body(a.fn)[a.line] = "stop_effects" /\ a.i < MaxTracks THEN a.line ELSE a.line + 1

\* game.c:25-81 (the state oshu_create_game leaves on success)
Init ==
    /\ beatmap \in MainBeatmaps
    /\ state \in InitialStates
    /\ clock = [now |-> InitialNow(beatmap), before |-> 0, system |-> 0, audio |-> 0]
    /\ music_ts = 0
    /\ device_playing = FALSE
    /\ seek_request = NoSeek
    /\ hit_cursor = 1
    /\ hit_state = [i \in DOMAIN beatmap.hits |-> "initial"]
    /\ pc = "run"
    /\ look_result = Null
    /\ calls = <<>>
    /\ locals = NoLocals
    /\ interrupted = ("PAUSED" \in state)
    /\ polled = 0
    /\ audio_device = IdleAudio
    /\ resumed = "no"
    /\ drawn = {}

\* game.c:397-404: entering oshu_run_game
RunGame ==
    /\ pc = "run"
    /\ LET g1 == [Called(Game, "oshu_run_game") EXCEPT !.clock.system = StartTicks]
           g2 == IF "PLAYING" \in g1.state /\ g1.clock.now >= 0
                 THEN oshu_play_audio(g1) ELSE g1
       IN  Commit(g2)
    /\ pc' = "loop"
    /\ UNCHANGED <<beatmap, look_result, locals>>
    /\ polled' = polled

\* game.c:405: the loop condition fails
LoopExit ==
    /\ pc = "loop"
    /\ "STOPPING" \in state
    /\ pc' = "exited"
    /\ calls' = <<>>
    /\ locals' = NoLocals
    /\ seek_request' = NoSeek
    /\ UNCHANGED <<audio_device, resumed, state, clock, music_ts, device_playing, beatmap,
                   hit_cursor, hit_state, look_result, interrupted>>
    /\ drawn' = {}
    /\ polled' = polled

\* game.c:405-408: sample the clock, start the audio at the end of the lead-in
UpdateClock ==
    /\ pc = "loop"
    /\ "STOPPING" \notin state
    /\ \E diff \in 1..MaxStep :
        /\ clock.system + diff <= MaxSystem
        /\ LET g1 == update_clock(Game, clock.system + diff)
               g2 == IF g1.clock.before < 0 /\ g1.clock.now >= 0
                     THEN oshu_play_audio(g1) ELSE g1
           IN  Commit([g2 EXCEPT !.resumed = IF @ = "resumed" THEN "sampled" ELSE "no"])
        /\ locals' = [NoLocals EXCEPT !.diff = diff, !.prev_audio = clock.audio]
    /\ pc' = "events"
    /\ look_result' = Null
    /\ UNCHANGED beatmap
    /\ polled' = 0

\* game.c:409-410: one event of the poll loop
HandleEvent ==
    /\ pc = "events"
    /\ polled < MaxEvents
    /\ \E e \in Events :
        LET g == handle_event(Game, e)
        IN  /\ g.music_ts <= MaxTime
            /\ Commit([g EXCEPT !.calls = <<"handle_event">> \o @])
            /\ locals' \in ModeReturned(g)
    /\ UNCHANGED <<beatmap, pc, look_result>>
    /\ polled' = polled + 1

\* game.c:411-415: the queue is empty; the mode's check, then check_end
UpdateMode ==
    /\ pc = "events"
    /\ LET g1 == IF "USERPLAY" \in state THEN mode_check(Game)
                 ELSE IF "AUTOPLAY" \in state THEN mode_autoplay(Game)
                 ELSE Game
       IN  /\ Commit(check_end(g1))
           /\ locals' \in ModeReturned(g1)
    /\ pc' = "draw"
    /\ UNCHANGED <<beatmap, look_result>>
    /\ polled' = polled

\* game.c:416-418 and draw.c:236-254: render the frame
Draw ==
    /\ pc = "draw"
    /\ look_result' = oshu_look_hit_up(hits, hit_cursor, clock.now, ApproachTime)
    /\ drawn' = osu_draw(hits, hit_cursor, clock.now)
    /\ calls' = <<"draw", "oshu_look_hit_up">>
    /\ pc' = "pace"
    /\ locals' = NoLocals
    /\ seek_request' = NoSeek
    /\ UNCHANGED <<audio_device, resumed, state, clock, music_ts, device_playing, beatmap,
                   hit_cursor, hit_state, interrupted>>
    /\ polled' = polled

\* game.c:419-426: sleep for what is left of the frame, or count a missed
\* frame; the decoder made no progress meanwhile
Pace ==
    /\ pc = "pace"
    /\ pc' = "loop"
    /\ calls' = <<"pace">>
    /\ locals' = NoLocals
    /\ seek_request' = NoSeek
    /\ UNCHANGED <<audio_device, resumed, state, clock, music_ts, device_playing, beatmap,
                   hit_cursor, hit_state, look_result, interrupted>>
    /\ drawn' = {}
    /\ polled' = polled

\* A look-back that leaves the canonical cursor where the walk ended.
LookHitBackMovingCursor ==
    /\ pc = "draw"
    /\ \E offset \in 0..MaxOffset :
        /\ look_result' = oshu_look_hit_back(hits, hit_cursor, clock.now, offset)
        /\ locals' = [NoLocals EXCEPT !.offset = offset]
    /\ hit_cursor' = look_result'
    /\ calls' = <<"oshu_look_hit_back">>
    /\ seek_request' = NoSeek
    /\ UNCHANGED <<audio_device, resumed, state, clock, music_ts, device_playing, beatmap,
                   hit_state, pc, interrupted>>
    /\ drawn' = {}
    /\ polled' = polled

\* game.c:444-456: a look-back query of the mode while it draws
LookHitBack ==
    /\ pc = "draw"
    /\ \E offset \in 0..MaxOffset :
        /\ look_result' = oshu_look_hit_back(hits, hit_cursor, clock.now, offset)
        /\ locals' = [NoLocals EXCEPT !.offset = offset]
    /\ calls' = <<"oshu_look_hit_back">>
    /\ seek_request' = NoSeek
    /\ UNCHANGED <<audio_device, resumed, state, clock, music_ts, device_playing, beatmap,
                   hit_cursor, hit_state, pc, interrupted>>
    /\ drawn' = {}
    /\ polled' = polled

\* game.c:458-470: a look-up query of the mode while it draws
LookHitUp ==
    /\ pc = "draw"
    /\ \E offset \in 0..MaxOffset :
        /\ look_result' = oshu_look_hit_up(hits, hit_cursor, clock.now, offset)
        /\ locals' = [NoLocals EXCEPT !.offset = offset]
    /\ calls' = <<"oshu_look_hit_up">>
    /\ seek_request' = NoSeek
    /\ UNCHANGED <<audio_device, resumed, state, clock, music_ts, device_playing, beatmap,
                   hit_cursor, hit_state, pc, interrupted>>
    /\ drawn' = {}
    /\ polled' = polled

\* audio.cc:53-77: the device thread, scheduled while the loop sleeps,
\* decodes more of the stream
AudioCallback ==
    /\ device_playing
    /\ pc = "pace"
    /\ \E decoded \in 1..MaxStep :
        /\ music_ts + decoded <= MaxTime
        /\ music_ts' = music_ts + decoded
    /\ pc' = "loop"
    /\ calls' = <<"pace", "audio_callback">>
    /\ locals' = NoLocals
    /\ seek_request' = NoSeek
    /\ UNCHANGED <<audio_device, resumed, state, clock, device_playing, beatmap,
                   hit_cursor, hit_state, look_result, interrupted>>
    /\ drawn' = {}
    /\ polled' = polled

Next ==
    \/ RunGame
    \/ LoopExit
    \/ UpdateClock
    \/ HandleEvent
    \/ UpdateMode
    \/ Draw
    \/ Pace
    \/ LookHitBack
    \/ LookHitUp
    \/ AudioCallback

Spec == Init /\ [][Next]_vars

(* ----------------------- look-up specification ------------------------- *)

\* Sorted lists of n hits with times up to MaxHitTime, each lasting up to
\* MaxDuration.
RealHits(n) ==
    {real \in [1..n -> {Hit(t, t + d) : t \in 0..MaxHitTime, d \in 0..MaxDuration}] :
        IsSorted(real)}

\* The circles at times 1, 2, 3, 5 and 8.
ExampleHits == <<Hit(1, 1), Hit(2, 2), Hit(3, 3), Hit(5, 5), Hit(8, 8)>>

LookBeatmaps ==
    {Beatmap(real, 0) : real \in UNION {RealHits(n) : n \in 1..MaxHits}}
    \cup {Beatmap(ExampleHits, 0)}

\* Any timeline, any cursor and any clock, while the mode draws.
InitLook ==
    /\ beatmap \in LookBeatmaps
    /\ state = {"USERPLAY", "PLAYING"}
    /\ \E now \in 0..MaxNow :
        clock = [now |-> now, before |-> now, system |-> 0, audio |-> now]
    /\ music_ts = clock.now
    /\ device_playing = TRUE
    /\ seek_request = NoSeek
    /\ hit_cursor \in DOMAIN beatmap.hits
    /\ hit_state = [i \in DOMAIN beatmap.hits |-> "initial"]
    /\ pc = "draw"
    /\ look_result = Null
    /\ calls = <<>>
    /\ locals = NoLocals
    /\ interrupted = FALSE
    /\ polled = 0
    /\ audio_device = IdleAudio
    /\ resumed = "no"
    /\ drawn = {}

NextLook ==
    \/ LookHitBack
    \/ LookHitUp
    \/ Draw

SpecLook == InitLook /\ [][NextLook]_vars

(* --------------------- seek round-trip specification ------------------- *)

\* The offsets the game seeks by.
SeekOffsets == {UnpauseOffset, RewindOffset, ForwardOffset}

\* game.c:125-155: rewind_music then forward_music with the same offset and
\* nothing in between, from a position the rewind does not clamp.
RewindThenForward ==
    /\ pc = "events"
    /\ polled = 0
    /\ \E offset \in SeekOffsets :
        /\ music_ts - offset >= 0
        /\ Commit(forward_music(rewind_music(Game, offset), offset))
        /\ locals' = [NoLocals EXCEPT !.offset = offset]
    /\ polled' = MaxEvents
    /\ UNCHANGED <<beatmap, pc, look_result>>

NextSeek ==
    \/ Next
    \/ RewindThenForward

\* The game loop, with the round trip among the things a frame can do.
SpecSeek == Init /\ [][NextSeek]_vars

(* --------------------------- audio specification ----------------------- *)

GameVars == <<state, clock, device_playing, seek_request, beatmap, hit_cursor,
              hit_state, pc, look_result, locals, interrupted, polled, resumed,
              drawn>>

\* The device is playing the example beatmap from its start.
InitAudio ==
    /\ beatmap = Beatmap(ExampleHits, 0)
    /\ state = {"USERPLAY", "PLAYING"}
    /\ clock = [now |-> 0, before |-> 0, system |-> 0, audio |-> 0]
    /\ music_ts = 0
    /\ device_playing = TRUE
    /\ seek_request = NoSeek
    /\ hit_cursor = 1
    /\ hit_state = [i \in DOMAIN beatmap.hits |-> "initial"]
    /\ pc = "events"
    /\ look_result = Null
    /\ calls = <<>>
    /\ locals = NoLocals
    /\ interrupted = FALSE
    /\ polled = 0
    /\ audio_device = IdleAudio
    /\ resumed = "no"
    /\ drawn = {}

\* audio.cc:161-195: the main thread enters one of the audio functions
CallAudio ==
    /\ audio_device.fn = "none"
    /\ \E fn \in AudioFunctions, target \in SeekTargets :
        /\ fn # "seek_music" => target = 0
        /\ audio_device' = [audio_device EXCEPT !.fn = fn, !.line = 1, !.target = target]
    /\ calls' = <<audio_device'.fn>>
    /\ UNCHANGED <<music_ts, GameVars>>

\* audio.cc:161-195: the main thread executes its next statement;
\* SDL_LockAudioDevice waits until the device lock is free
MainStatement ==
    /\ audio_device.fn # "none"
    /\ NextStatement = "lock" => audio_device.lock = "free"
    /\ LET after == Statement(audio_device, music_ts, NextStatement)
           line  == NextLine(audio_device)
       IN  /\ audio_device' = IF line > Len(Body(audio_device.fn))
                       THEN [after.device EXCEPT !.fn = "none", !.line = 1]
                       ELSE [after.device EXCEPT !.line = line]
           /\ music_ts' = after.music_ts
    /\ calls' = <<NextStatement>>
    /\ UNCHANGED GameVars

\* audio.cc:53-64: the device thread enters audio_callback, which SDL runs
\* with the device lock held, and reads the stream; when the read fails the
\* callback returns at once
CallbackRead ==
    /\ device_playing
    /\ audio_device.callback = "idle"
    /\ audio_device.lock = "free"
    /\ \E rc \in {0 - 1, 0, 1} :
        /\ music_ts' = IF rc > 0 THEN Min(music_ts + rc, MaxSamples) ELSE music_ts
        /\ audio_device' = IF rc < 0 THEN audio_device
                           ELSE [audio_device EXCEPT !.lock = "callback", !.callback = "mixing"]
    /\ calls' = <<"read_stream">>
    /\ UNCHANGED GameVars

\* audio.cc:70-76: the callback mixes every track and returns
CallbackMix ==
    /\ audio_device.callback = "mixing"
    /\ audio_device' = [audio_device EXCEPT
            !.effects = [i \in 1..MaxTracks |-> mix_track(audio_device.effects[i], FALSE)],
            !.looping = mix_track(audio_device.looping, TRUE),
            !.lock = IF audio_device.lock = "callback" THEN "free" ELSE audio_device.lock,
            !.callback = "idle"]
    /\ calls' = <<"mix_track">>
    /\ UNCHANGED <<music_ts, GameVars>>

NextAudio ==
    \/ CallAudio
    \/ MainStatement
    \/ CallbackRead
    \/ CallbackMix

\* The main thread calling the audio functions while the device plays.
SpecAudio == InitAudio /\ [][NextAudio]_vars

(* -------------------------- creation specification -------------------- *)

\* The game before oshu_create_game: no cursor yet, the clock at zero.
InitCreate ==
    /\ beatmap \in MainBeatmaps
    /\ state \in InitialStates
    /\ clock = [now |-> 0, before |-> 0, system |-> 0, audio |-> 0]
    /\ music_ts = 0
    /\ device_playing = FALSE
    /\ seek_request = NoSeek
    /\ hit_cursor = Null
    /\ hit_state = [i \in DOMAIN beatmap.hits |-> "initial"]
    /\ pc = "create"
    /\ look_result = Null
    /\ calls = <<>>
    /\ locals = NoLocals
    /\ interrupted = ("PAUSED" \in state)
    /\ polled = 0
    /\ audio_device = IdleAudio
    /\ resumed = "no"
    /\ drawn = {}

\* game.c:25-81: oshu_create_game, with any set of stages failing
CreateGame ==
    /\ pc = "create"
    /\ \E failing \in SUBSET Range(Stages) :
        LET created == oshu_create_game(Game, beatmap, failing)
        IN  /\ Commit(created.game)
            /\ locals' = [NoLocals EXCEPT !.rc = created.rc, !.failing = failing]
            /\ pc' = AfterCreate(created.rc)
    /\ UNCHANGED <<beatmap, look_result, polled>>

NextCreate ==
    \/ CreateGame
    \/ Next

\* The session from before the creation of the game.
SpecCreate == InitCreate /\ [][NextCreate]_vars

(* ------------------------------ properties ----------------------------- *)

\* The last step was a clock sample (update_clock).
IsSample == Len(calls) > 0 /\ calls[1] = "update_clock"

\* The last step forwarded a seek to the audio collaborator.
Seeked == "seek_music" \in Range(calls)

Playing == "PLAYING" \in state

\* C1: clock.now never decreases from one step to the next unless that step
\* performs a seek; in particular consecutive clock samples never move it back.
C1_NowMonotonic ==
    [][clock'.now < clock.now => "seek_music" \in Range(calls')]_vars

\* A seek has moved now behind the previous frame's value.
C1_Witness == Seeked /\ clock.now < clock.before

\* C2: a sample taken while playing with before >= 0 and an audio position
\* different from the previously sampled one yields now = max(audio, before).
C2_AudioAdoptedOrClamped ==
    (IsSample /\ Playing /\ clock.before >= 0 /\ clock.audio # locals.prev_audio)
        => clock.now = Max(clock.audio, clock.before)

\* The audio position moved but is behind the clock, which is held at before.
C2_Witness ==
    /\ IsSample /\ Playing /\ clock.before >= 0
    /\ clock.audio # locals.prev_audio
    /\ clock.audio < clock.before
    /\ clock.now = clock.before

\* C3: a sample taken while playing with before >= 0 and a repeated audio
\* position advances now by exactly the wall-clock time since the last sample.
C3_StallFallback ==
    (IsSample /\ Playing /\ clock.before >= 0 /\ clock.audio = locals.prev_audio)
        => clock.now = clock.before + locals.diff

\* The device is playing, the position repeats and two seconds went by.
C3_Witness ==
    /\ IsSample /\ Playing /\ clock.before >= 0 /\ device_playing
    /\ clock.audio = locals.prev_audio
    /\ locals.diff = 2
    /\ clock.now = clock.before + 2

\* C4: during the lead-in every sample taken while playing adds the elapsed
\* wall-clock time to now; played without interruption from the start, now is
\* the initial value plus the wall-clock time since the loop was entered, so a
\* lead-in of 2 ends at 0 after 2 seconds.
C4_LeadIn ==
    /\ (IsSample /\ Playing /\ clock.before < 0)
            => clock.now = clock.before + locals.diff
    /\ (~interrupted /\ pc # "run" /\ (clock.now < 0 \/ clock.before < 0))
            => clock.now = InitialNow(beatmap) + (clock.system - StartTicks)

\* A lead-in of 2 seconds played through: now reaches 0 after 2 seconds.
C4_Witness ==
    /\ IsSample /\ Playing /\ ~interrupted
    /\ InitialNow(beatmap) = 0 - 2
    /\ clock.before < 0
    /\ clock.system - StartTicks = 2
    /\ clock.now = 0

\* C5: a sample taken while the game is not playing leaves now unchanged, and
\* the frame loop goes on: events are handled and the frame is drawn.
C5_PausedClockFrozen ==
    /\ [][(Len(calls') > 0 /\ calls'[1] = "update_clock" /\ ~Playing)
            => clock'.now = clock.now]_vars
    /\ []((~Playing /\ pc = "events")
            => ((polled < MaxEvents => ENABLED HandleEvent) /\ ENABLED UpdateMode))
    /\ []((~Playing /\ pc = "draw") => ENABLED Draw)

\* A frame drawn while paused, after wall-clock time has passed.
C5_Witness ==
    /\ "PAUSED" \in state /\ ~Playing
    /\ pc = "pace" /\ calls[1] = "draw"
    /\ clock.system > StartTicks
    /\ clock.now = clock.before

FirstEndingAtOrAfter(target) ==
    CHOOSE i \in DOMAIN hits :
        /\ hits[i].end_time >= target
        /\ \A j \in 1..(i - 1) : hits[j].end_time < target

LookedBack == calls = <<"oshu_look_hit_back">>
LookedUp == calls = <<"oshu_look_hit_up">>

\* C7: oshu_look_hit_back returns the first hit of the list, in list order,
\* whose end time is at or after now - offset.
C7_LookBackFirstEnding ==
    LookedBack => look_result = FirstEndingAtOrAfter(clock.now - locals.offset)

\* C8: oshu_look_hit_up returns a hit h with time(h) <= now + offset such that
\* every hit after h has time >= now + offset; on the circles at 1, 2, 3, 5, 8
\* with now = 4 and offset 2 it returns the circle at 5.
C8_LookUp ==
    LookedUp =>
        /\ look_result \in DOMAIN hits
        /\ hits[look_result].time <= clock.now + locals.offset
        /\ \A j \in (look_result + 1)..Len(hits) :
                hits[j].time >= clock.now + locals.offset
        /\ (beatmap.hits = Timeline(ExampleHits) /\ clock.now = 4 /\ locals.offset = 2)
                => hits[look_result].time = 5

\* The example, looked up from the far end of the list.
C8_Witness ==
    /\ LookedUp
    /\ beatmap.hits = Timeline(ExampleHits)
    /\ clock.now = 4 /\ locals.offset = 2
    /\ hit_cursor = Len(hits)
    /\ hits[look_result].time = 5

LookedBackInExample ==
    /\ LookedBack
    /\ beatmap.hits = Timeline(ExampleHits)
    /\ clock.now = 4 /\ locals.offset = 2

\* C9 as stated: on the circles at 1, 2, 3, 5, 8 with now = 4, look-back by 2
\* returns the circle at 3.
C9_Original == LookedBackInExample => hits[look_result].time = 3

\* C9 as amended: on the circles at 1, 2, 3, 5, 8 with now = 4, look-back by 2
\* returns the circle at 2, for every starting cursor.
C9_LookBackExample == LookedBackInExample => hits[look_result].time = 2

\* The example, looked back from the head of the list.
C9_Witness ==
    /\ LookedBackInExample
    /\ hit_cursor = 1
    /\ hits[look_result].time = 2

\* C10: the look-up queries leave the cursor, the clock and every hit's state
\* unchanged; the cursor moves backward only inside a rewind.
C10_LookupsArePure ==
    [][/\ (calls' \in {<<"oshu_look_hit_back">>, <<"oshu_look_hit_up">>})
            => (hit_cursor' = hit_cursor /\ clock' = clock /\ hit_state' = hit_state)
       /\ (hit_cursor' < hit_cursor) => "rewind_music" \in Range(calls')]_vars

\* A look-back that ended away from the cursor, which a rewind has taken
\* back from the tail after a forward seek skipped the hits.
C10_Witness ==
    /\ LookedBack
    /\ look_result # hit_cursor
    /\ hit_cursor < Len(hits)
    /\ \E i \in DOMAIN hit_state : hit_state[i] = "skipped"

Rewound == "rewind_music" \in Range(calls)
Forwarded == "forward_music" \in Range(calls)

\* C11: on a timeline bounded by its two sentinels the cursor is always a node
\* of the list, and so is every hit a look-up returns: no walk of a rewind, a
\* forward seek or a look-up ends on NULL.
C11_NeverOffTheList ==
    /\ hit_cursor \in DOMAIN hits
    /\ (LookedBack \/ LookedUp \/ "oshu_look_hit_up" \in Range(calls))
            => look_result \in DOMAIN hits

\* A rewind, after the first frame has moved the cursor off the head sentinel,
\* has walked it back onto the head sentinel.
C11_Witness ==
    /\ Rewound
    /\ clock.system >= StartTicks + 2
    /\ hit_cursor = 1
    /\ hits[2].time > clock.now + SeekBreak

\* The step is a rewind: the hits from the old cursor down to the one after the
\* new cursor were walked over.
WalkedBack(i) == hit_cursor' < i /\ i <= hit_cursor

\* C12 as stated: after a rewind every hit walked over is initial, the cursor
\* rests on a hit with time <= now + 1, and no other hit changed state.
C12_Original ==
    [][("rewind_music" \in Range(calls')) =>
        /\ \A i \in DOMAIN hits : WalkedBack(i) => hit_state'[i] = "initial"
        /\ hits[hit_cursor'].time <= clock'.now + SeekBreak
        /\ \A i \in DOMAIN hits : ~WalkedBack(i) => hit_state'[i] = hit_state[i]]_vars

\* C12 as amended: after a rewind the hits walked over are those from the old
\* cursor backwards with time > now + 1 and each is initial, the cursor rests
\* on a hit with time <= now + 1, and every other hit keeps its state, except
\* that a hit held in sliding has been released to good or missed.
C12_Rewind ==
    [][("rewind_music" \in Range(calls')) =>
        /\ \A i \in DOMAIN hits :
            WalkedBack(i) <=> (i <= hit_cursor /\ hits[i].time > clock'.now + SeekBreak)
        /\ \A i \in DOMAIN hits : WalkedBack(i) => hit_state'[i] = "initial"
        /\ hits[hit_cursor'].time <= clock'.now + SeekBreak
        /\ \A i \in DOMAIN hits : ~WalkedBack(i) =>
                \/ hit_state'[i] = hit_state[i]
                \/ hit_state[i] = "sliding" /\ hit_state'[i] \in {"good", "missed"}]_vars

\* A rewind after a forward seek: the hit after the cursor was reset, the one
\* under the cursor, at or before now + 1, is still skipped.
C12_Witness ==
    /\ Rewound
    /\ hit_cursor < Len(hits) - 1
    /\ hits[hit_cursor].time <= clock.now + SeekBreak
    /\ hits[hit_cursor + 1].time > clock.now + SeekBreak
    /\ hit_state[hit_cursor] = "skipped"
    /\ hit_state[hit_cursor + 1] = "initial"

\* The step is a forward seek: the hits from the old cursor up to the one
\* before the new cursor were walked over.
WalkedForward(i) == hit_cursor <= i /\ i < hit_cursor'

\* C13: after a forward seek the hits walked over are those from the old
\* cursor on with time < now + 1 and each is skipped, the cursor rests on a hit
\* with time >= now + 1, and the hits before the old cursor keep their state.
C13_Forward ==
    [][("forward_music" \in Range(calls')) =>
        /\ \A i \in DOMAIN hits :
            WalkedForward(i) <=> (i >= hit_cursor /\ hits[i].time < clock'.now + SeekBreak)
        /\ \A i \in DOMAIN hits : WalkedForward(i) => hit_state'[i] = "skipped"
        /\ hits[hit_cursor'].time >= clock'.now + SeekBreak
        /\ \A i \in 1..(hit_cursor - 1) : hit_state'[i] = hit_state[i]]_vars

\* A forward seek that stopped on the circle exactly at now + 1, skipped the
\* hits up to it and left a hit judged earlier as it was.
C13_Witness ==
    /\ Forwarded
    /\ hit_cursor < Len(hits)
    /\ hits[hit_cursor].time = clock.now + SeekBreak
    /\ hit_state[hit_cursor] = "initial"
    /\ hit_state[hit_cursor - 1] = "skipped"
    /\ \E i \in 1..(hit_cursor - 1) : hit_state[i] \in {"good", "missed"}

\* C14: a hit that is good, missed or skipped changes state only to initial,
\* and only in a rewind whose walk passes it; a forward seek never changes a
\* hit that is already good or missed.
C14_TerminalStates ==
    [][\A i \in DOMAIN hits :
        (Resolved(hit_state[i]) /\ hit_state'[i] # hit_state[i]) =>
            /\ hit_state'[i] = "initial"
            /\ "rewind_music" \in Range(calls')
            /\ WalkedBack(i)]_vars

\* C15: a rewind followed at once by a forward seek of the same offset, the
\* audio position coming back to where it was, leaves the cursor on the hit
\* it was on before the rewind.
C15_RewindForwardRestoresCursor ==
    [][(/\ Len(calls') > 0 /\ calls'[1] = "rewind_music"
        /\ "forward_music" \in Range(calls')
        /\ music_ts' = music_ts)
            => hit_cursor' = hit_cursor]_vars

Finished == "FINISHED" \in state

\* C16: the game is finished only with the cursor past the last real hit and
\* now > end time of the last real hit + leniency + approach time.
C16_FinishedOnlyAfterEnd ==
    Finished =>
        /\ NextHit(hits, hit_cursor) = Null
        /\ clock.now > oshu_hit_end_time(hits, Len(hits) - 1) + Leniency + ApproachTime

\* What the game dispatches to the mode or to the seek handlers.
Dispatches ==
    {"press", "release", "check", "autoplay", "relinquish",
     "rewind_music", "forward_music", "seek_music", "pause_game", "unpause_game"}

\* C17: once FINISHED is set it stays set, PAUSED, USERPLAY and AUTOPLAY stay
\* clear, nothing is dispatched to the mode or to a seek, no hit state and no
\* cursor position changes, the only flag that can still change is STOPPING
\* being set, and the score is computed by the step that sets FINISHED only.
C17_FinishedIsTerminal ==
    [][/\ Finished =>
            /\ "FINISHED" \in state'
            /\ state' \cap {"PAUSED", "USERPLAY", "AUTOPLAY"} = {}
            /\ Range(calls') \cap (Dispatches \cup {"end"}) = {}
            /\ hit_state' = hit_state
            /\ hit_cursor' = hit_cursor
            /\ state' \in {state, state \cup {"STOPPING"}}
       /\ ("end" \in Range(calls')) => (~Finished /\ "FINISHED" \in state')]_vars

\* The finished game has handled an event and taken another clock sample.
C17_Witness ==
    /\ Finished
    /\ "STOPPING" \notin state
    /\ polled > 0
    /\ clock.now > clock.before
    /\ Len(calls) > 0 /\ calls[1] = "handle_event"

Stopping == "STOPPING" \in state

\* C18: once STOPPING is set no later step clears it, and the loop leaves at
\* its next test of the loop condition.
C18_StoppingSticks ==
    /\ [][Stopping => "STOPPING" \in state']_vars
    /\ []((Stopping /\ pc = "loop") => (ENABLED LoopExit /\ ~ENABLED UpdateClock))

\* The play policy: which of OSHU_USERPLAY and OSHU_AUTOPLAY is set.
Policy(flags) == flags \cap {"USERPLAY", "AUTOPLAY"}

\* C19: PAUSED and PLAYING are never both set, USERPLAY and AUTOPLAY are never
\* both set, and until the game is finished every step keeps the play policy.
C19_ExclusiveFlags ==
    /\ [](~({"PAUSED", "PLAYING"} \subseteq state))
    /\ [](Cardinality(Policy(state)) <= 1)
    /\ [](~Finished => Cardinality(Policy(state)) = 1)
    /\ [][("FINISHED" \notin state') => Policy(state') = Policy(state)]_vars

\* A user game resumed, with the rewind of a resume past the lead-in: it was
\* paused after it had played through the lead-in.
C19_Witness ==
    /\ "unpause_game" \in Range(calls)
    /\ Rewound
    /\ state = {"USERPLAY", "PLAYING"}
    /\ beatmap.audio_lead_in > 0

\* The keys the game keeps for itself: pause, rewind, forward and quit.
ControlKeys == {"ESCAPE", "PAGEUP", "PAGEDOWN", "q"}

Pressed(g) == "press" \in Range(g.calls)
Released(g) == "release" \in Range(g.calls)

\* C20: whatever event arrives while the loop polls events, the mode's press
\* and release are dispatched only in user play while playing, never in
\* autoplay, paused or finished, a key press is forwarded only if it is no
\* repeat and none of the game's control keys, and no step other than an
\* event dispatches them.
C20_FilteredInput ==
    /\ pc = "events" =>
        \A e \in Events :
            LET g == handle_event(Game, e)
            IN  /\ (Pressed(g) \/ Released(g)) =>
                        /\ {"USERPLAY", "PLAYING"} \subseteq state
                        /\ state \cap {"AUTOPLAY", "PAUSED", "FINISHED"} = {}
                /\ (Pressed(g) /\ e.type = "KEYDOWN") =>
                        (~e.repeat /\ e.sym \notin ControlKeys)
    /\ (Range(calls) \cap {"press", "release"} # {}) => calls[1] = "handle_event"

\* A press went through to the mode and resolved the hit under the cursor.
C20_Witness ==
    /\ "press" \in Range(calls)
    /\ {"USERPLAY", "PLAYING"} \subseteq state
    /\ hit_state[hit_cursor] \in {"good", "sliding"}

Paused == "PAUSED" \in state

\* C21: no step taken while the game is paused invokes the mode's check or
\* its autoplay.
C21_NoCheckWhilePaused ==
    [][Paused => Range(calls') \cap {"check", "autoplay"} = {}]_vars

\* How often fn occurs among the calls of the last step.
Count(fn) == Cardinality({i \in DOMAIN calls : calls[i] = fn})

\* Every occurrence of a comes before every occurrence of b.
Before(a, b) ==
    \A i, j \in DOMAIN calls : (calls[i] = a /\ calls[j] = b) => i < j

\* C22: a step that rewinds or seeks forward calls the mode's relinquish
\* exactly once, after the audio seek and the assignment of clock.now and
\* before the walk that moves the cursor and writes hit states.
C22_RelinquishOnSeek ==
    (Rewound \/ Forwarded) =>
        /\ Count("relinquish") = 1
        /\ Count("seek_music") = 1 /\ Count("clock.now") = 1 /\ Count("hit_cursor") = 1
        /\ Before("seek_music", "relinquish")
        /\ Before("clock.now", "relinquish")
        /\ Before("relinquish", "hit_cursor")

\* A rewind whose relinquish judged the slider under the cursor before its end.
C22_Witness ==
    /\ Rewound
    /\ "relinquish" \in Range(calls)
    /\ hit_cursor \in 2..(Len(hits) - 1)
    /\ IsSlider(hit_cursor)
    /\ hit_state[hit_cursor] = "missed"
    /\ clock.now < hits[hit_cursor].end_time

\* C23: pausing calls the mode's relinquish, and in no paused state is a hit
\* still held in sliding.
C23_NoSlidingWhilePaused ==
    /\ ("pause_game" \in Range(calls)) => ("relinquish" \in Range(calls))
    /\ Paused => \A i \in DOMAIN hit_state : hit_state[i] # "sliding"

\* The mode returned a fatal status to the last step.
ModeFailed == locals.rc < 0

\* C24: after a mode operation has returned a fatal status the loop runs no
\* further iteration: it samples no clock, dispatches no event, calls the mode
\* no more and renders nothing.
C24_FatalStatusAborts ==
    [][ModeFailed =>
        Range(calls') \cap ({"update_clock", "handle_event", "draw"} \cup ModeOperations) = {}]_vars

\* The loop is back at its condition after a full iteration.
IterationDone == pc = "loop" /\ Len(calls) > 0 /\ calls[1] = "pace"

\* C25: at the end of every iteration in which the game is playing, neither
\* paused nor finished, with now >= 0, the audio device has been started.
C25_AudioStartedWhenPlaying ==
    (IterationDone /\ Playing /\ ~Paused /\ ~Finished /\ clock.now >= 0)
        => device_playing

\* The main thread is between the first and the last statement of an audio
\* function: the statements that read and change the tracks and the stream.
InCriticalSection == audio_device.fn # "none" /\ audio_device.line > 1

\* A track that was playing before the stream was seeked is still active.
PreSeekTrackActive ==
    \/ audio_device.looping.before_seek
    \/ \E i \in 1..MaxTracks : audio_device.effects[i].before_seek

\* C26: the main thread changes the state it shares with the audio callback
\* (the effect tracks, the looping track, the stream position) only between
\* taking and releasing the device lock, it holds the lock no longer than
\* the function it took it in, and the callback never runs in between the
\* statements of such a change: it never mixes a track that was playing
\* before a seek onto the seeked stream.
C26_MutationsUnderLock ==
    /\ InCriticalSection => audio_device.lock = "main"
    /\ audio_device.fn = "none" => audio_device.lock # "main"
    /\ audio_device.callback = "mixing" => ~InCriticalSection /\ ~PreSeekTrackActive

\* seek_music has moved the stream and stopped the first effect track; the
\* second one, started before the seek, is still active, the lock is held.
C26_Witness ==
    /\ audio_device.fn = "seek_music"
    /\ NextStatement = "stop_effects"
    /\ audio_device.i > 1
    /\ PreSeekTrackActive
    /\ audio_device.lock = "main"
    /\ music_ts = seek_stream(audio_device.target)

\* The last step was oshu_create_game with a stage failing.
CreateFailed ==
    /\ Len(calls) > 0
    /\ calls[1] = "oshu_create_game"
    /\ locals.failing # {}

\* C27: when a stage of oshu_create_game fails (beatmap load, unsupported
\* mode, audio open, display open, mode initialize), the function returns -1
\* after calling oshu_destroy_game exactly once, as its last call, no stage
\* after the failed one is attempted, and the game loop is not entered.
C27_FailedCreateCleansUp ==
    CreateFailed =>
        /\ locals.rc = 0 - 1
        /\ Count("oshu_destroy_game") = 1
        /\ calls[Len(calls)] = "oshu_destroy_game"
        /\ \A k \in DOMAIN Stages :
            Stages[k] \in locals.failing =>
                \A j \in (k + 1)..Len(Stages) : Stages[j] \notin Range(calls)
        /\ pc = "exited"
        /\ ~ENABLED RunGame

\* The display failed to open after the beatmap and the audio were ready.
C27_Witness ==
    /\ CreateFailed
    /\ calls = <<"oshu_create_game", "oshu_load_beatmap", "oshu_open_audio",
                 "oshu_open_display", "oshu_destroy_game">>
    /\ locals.rc < 0

\* A first press of the pause key.
PauseKey == Event("KEYDOWN", "ESCAPE", FALSE, "NONE")

\* This step handles a first press of the pause key.
PauseKeyHandled ==
    /\ pc = "events"
    /\ polled' = polled + 1
    /\ LET g == handle_event(Game, PauseKey)
       IN  /\ calls' = <<"handle_event">> \o g.calls
           /\ state' = g.state
           /\ clock' = g.clock
           /\ music_ts' = g.music_ts
           /\ device_playing' = g.device_playing
           /\ hit_cursor' = g.hit_cursor
           /\ hit_state' = g.hit_state

\* C28: in user play and in autoplay alike, a first press of the pause key
\* while the game is playing pauses it (PAUSED set, PLAYING cleared, the
\* audio device paused), and a press while it is paused makes it play again.
C28_PauseKeyToggles ==
    [][PauseKeyHandled =>
        /\ (Playing /\ ~Paused /\ ~Finished) =>
                ("PAUSED" \in state' /\ "PLAYING" \notin state' /\ ~device_playing')
        /\ Paused => ("PLAYING" \in state' /\ "PAUSED" \notin state')]_vars

\* This step resumes the game (unpause_game).
Unpaused == "unpause_game" \in Range(calls')

\* This step seeks the music.
SeeksMusic == "seek_music" \in Range(calls')

\* This step rewinds the song by UnpauseOffset: the stream is asked for its
\* position less the offset, now takes the position the stream settles at,
\* and the cursor steps back over the hits later than now + SeekBreak,
\* which return to their initial state.
RewindsByUnpauseOffset ==
    /\ SeeksMusic
    /\ seek_request' = music_ts - UnpauseOffset
    /\ music_ts' = seek_stream(music_ts - UnpauseOffset)
    /\ clock'.now = music_ts'
    /\ hit_cursor' <= hit_cursor
    /\ hit_cursor' = 1 \/ hits[hit_cursor'].time <= clock'.now + SeekBreak
    /\ \A i \in (hit_cursor' + 1)..hit_cursor : hit_state'[i] = "initial"

\* C29: resuming always leaves the game playing and not paused; in user
\* play at now >= 0 the song is first rewound by one second, cursor
\* included, and the audio is started; in autoplay at now >= 0 the audio is
\* started and nothing is sought; during the lead-in (now < 0) the resume
\* neither seeks nor starts the audio.
C29_Resume ==
    [][Unpaused =>
        /\ "PLAYING" \in state' /\ "PAUSED" \notin state'
        /\ (clock.now >= 0 /\ "AUTOPLAY" \notin state) =>
                (RewindsByUnpauseOffset /\ device_playing')
        /\ (clock.now >= 0 /\ "AUTOPLAY" \in state) =>
                (~SeeksMusic /\ device_playing' /\ clock' = clock /\ music_ts' = music_ts)
        /\ clock.now < 0 =>
                /\ ~SeeksMusic
                /\ "play_audio" \notin Range(calls')
                /\ device_playing' = device_playing
                /\ clock' = clock
                /\ music_ts' = music_ts]_vars

\* A user-play game with a judged hit was resumed: the song was rewound and
\* the audio plays.
C29_Witness ==
    /\ "unpause_game" \in Range(calls)
    /\ "rewind_music" \in Range(calls)
    /\ "USERPLAY" \in state
    /\ Playing /\ ~Paused
    /\ device_playing
    /\ hit_cursor < Len(hits) - 1
    /\ \E i \in DOMAIN hit_state : hit_state[i] \in {"missed", "good"}

\* The last step was the first clock sample after the game left the pause.
FirstSampleAfterResume == IsSample /\ resumed = "sampled"

\* C30 as stated: the first clock sample after a resume advances now by at
\* most the wall-clock time elapsed since the sample of the frame before.
C30_Original ==
    FirstSampleAfterResume => clock.now - clock.before <= locals.diff

\* C30: the time spent paused is never added to now: the first clock sample
\* after a resume leaves now within the wall-clock time elapsed since the
\* sample of the frame before, or at the audio position when that is
\* further; now does not go back.
C30_ResumeAddsNoPausedTime ==
    FirstSampleAfterResume =>
        /\ clock.now >= clock.before
        /\ clock.now <= Max(clock.before + locals.diff, clock.audio)

\* The first sample after a resume moved now by the time of one frame; the
\* pause had been sampled before.
C30_Witness ==
    /\ FirstSampleAfterResume
    /\ Playing /\ ~Paused
    /\ clock.system > StartTicks + locals.diff
    /\ clock.now = clock.before + locals.diff
    /\ clock.audio = locals.prev_audio

\* The window was minimized or lost the focus.
FocusEvents == {Event("WINDOWEVENT", "NONE", FALSE, w) : w \in {"MINIMIZED", "FOCUS_LOST"}}

\* C31: while the loop polls events, a minimize or focus-lost event pauses
\* the game (PAUSED set, PLAYING cleared, the audio device paused) exactly
\* when the game is in user play, playing, and the cursor is not on the tail
\* of the list; otherwise (autoplay, paused, finished, cursor on the tail)
\* the event changes nothing.
C31_FocusLostPauses ==
    pc = "events" =>
        \A e \in FocusEvents :
            LET g == handle_event(Game, e)
            IN  IF /\ {"USERPLAY", "PLAYING"} \subseteq state
                   /\ hit_cursor # Len(hits)
                THEN /\ "pause_game" \in Range(g.calls)
                     /\ "PAUSED" \in g.state
                     /\ "PLAYING" \notin g.state
                     /\ ~g.device_playing
                ELSE g = Game

\* The game was paused at an event, in user play, with hits still to come.
C31_Witness ==
    /\ pc = "events"
    /\ calls = <<"handle_event", "pause_game", "pause_audio">>
    /\ "USERPLAY" \in state
    /\ Paused /\ ~Playing
    /\ ~device_playing
    /\ hit_cursor # Len(hits)

\* play_sample has selected its track and not yet started the sample.
TrackSelected ==
    audio_device.fn = "play_sample" /\ NextStatement = "start_track"

\* play_sample has started the sample and not yet released the lock.
SampleStarted ==
    audio_device.fn = "play_sample" /\ NextStatement = "unlock"

AllTracksActive == \A i \in 1..MaxTracks : audio_device.effects[i].sample # Null

\* C32: play_sample selects an inactive effect track whenever there is one;
\* only when every effect track is active does it take an active one, and
\* then one whose cursor is the greatest of all; the sample starts on the
\* selected track, from its beginning.
C32_SelectTrack ==
    /\ TrackSelected =>
        /\ ~AllTracksActive => audio_device.effects[audio_device.track].sample = Null
        /\ AllTracksActive =>
            \A j \in 1..MaxTracks :
                audio_device.effects[j].cursor
                    <= audio_device.effects[audio_device.track].cursor
    /\ SampleStarted =>
        /\ audio_device.effects[audio_device.track].sample = Sample
        /\ audio_device.effects[audio_device.track].cursor = 0

\* Every track is active and play_sample takes the second one, which is
\* further into its sample than the first.
C32_Witness ==
    /\ TrackSelected
    /\ AllTracksActive
    /\ audio_device.track = 2
    /\ audio_device.effects[2].cursor > audio_device.effects[1].cursor

\* The last step drew the frame.
Drew == Len(calls) > 0 /\ calls[1] = "draw"

\* now is within the visibility interval of hit i.
Visible(i) ==
    /\ hits[i].time - ApproachTime <= clock.now
    /\ clock.now <= hits[i].end_time + ApproachTime

\* C33: a frame draws exactly the circles and sliders whose visibility
\* interval [time - approach_time, end_time + approach_time] contains now,
\* also when an earlier slider ends later than the hits that follow it.
C33_DrawsTheVisibleHits ==
    Drew => drawn = {i \in 2..(Len(hits) - 1) : Visible(i)}

====
